---- MODULE Spec2Model ----
(***************************************************************************)
(* A model of combine.py of tumult/hype-documentation: the text-rewriting  *)
(* passes, the table translator (TableParser), the document assembler      *)
(* (combine_markdown_files), the reference extractor                       *)
(* (extract_used_image_filenames) and the asset reconciler                 *)
(* (cleanup_unused_images).                                                *)
(*                                                                         *)
(* TEXT.  A text is a sequence of lexemes.  Every character that one of    *)
(* the program's regular expressions singles out in a character class or   *)
(* that str.strip() removes is a lexeme of its own:                        *)
(*      "  )  (  [  ]  >  space  newline  tab  U+00A0                      *)
(* Every other lexeme is a word: a run of characters none of which is one  *)
(* of these.  A word of a path that holds a slash ends with it (a          *)
(* directory word), so the segment after the last slash of a path is the   *)
(* run after its last directory word; the openers of end tags ("</td")     *)
(* occur in no path.  Words are chosen so that a regular                   *)
(* expression's literal never starts or ends inside a word: `data-src="`   *)
(* is written "data-", "src=", QUOTE because the pattern `src="` of the    *)
(* image-path pass matches inside it.  With that, the program's patterns   *)
(* match a text exactly where the operators below match its lexemes.       *)
(***************************************************************************)
EXTENDS Integers, Sequences, FiniteSets, TLC

VARIABLES
    pc,            \* position of the running function
    md_files,      \* combine_markdown_files: the fragments, sorted by name
    idx,           \* combine_markdown_files: loop index i (1-based here)
    outfile,       \* the text written to README.md so far
    auto_delete,   \* cleanup_unused_images: the caller's policy
    response,      \* cleanup_unused_images: the answer at the prompt
    used_images,   \* the extractor's result
    all_files,     \* get_image_files_in_folder's result
    folder,        \* the files the images folder holds
    locked,        \* the files whose unlink() raises
    unused_files,  \* find_unused_files' result
    pending,       \* the rest of `for filename in unused_files`
    unused_files_list, \* the names written to unused_files.txt
    ret,           \* cleanup_unused_images' return value
    given,         \* the text a pass, the parser or the extractor is run on
    content,       \* the text the passes have produced from it so far
    prev,          \* the text before the last pass
    parser,        \* the TableParser object
    rawdata        \* HTMLParser.rawdata: the markup not yet parsed

vars == <<pc, md_files, idx, outfile, auto_delete, response, used_images,
          all_files, folder, locked, unused_files, pending,
          unused_files_list, ret, given, content, prev, parser, rawdata>>

mainVars == <<md_files, idx, outfile, auto_delete, response, all_files,
              folder, locked, unused_files, pending, unused_files_list,
              ret>>

textVars == <<given, content, prev>>

tableVars == <<parser, rawdata>>

----------------------------------------------------------------------------
(* Lexemes *)

QUOTE == "\""
RPAREN == ")"
LPAREN == "("
LBRACKET == "["
RBRACKET == "]"
GT == ">"
SPACE == " "
NEWLINE == "\n"
TAB == "\t"
NBSP == "U+00A0"
BR == "<br>"

\* \s of Python's re on str, and what str.strip() removes
Whitespace == {SPACE, NEWLINE, TAB, NBSP}

\* words matched by \d+
DigitWords == {"10", "20"}

RAW_HOST == "https://raw.githubusercontent.com/"
REPO_PATH == "tumult/hype-documentation/refs/heads/main/"
IMAGES == "images/"
DOCUMENTS == "documents/"
DOC_HOST == "https://tumult.com/hype/documentation/v4/"

\* words that end with a slash
DirWords == {RAW_HOST, REPO_PATH, IMAGES, DOCUMENTS, DOC_HOST, "sub/",
             "other/repo/", "https://img.youtube.com/vi/", "/",
             "https://www.youtube.com/", "https://example.com/"}

AssetBase == <<RAW_HOST, REPO_PATH, IMAGES>>

DocBase == <<DOC_HOST, DOCUMENTS>>

----------------------------------------------------------------------------
(* Helpers of the pattern matchers *)

Min(S) == CHOOSE x \in S : \A y \in S : x <= y

Max(S) == CHOOSE x \in S : \A y \in S : x >= y

\* the first index >= i of s that holds a lexeme of stop, else Len(s)+1:
\* where a run [^stop]* that starts at i ends
FirstIn(s, i, stop) ==
    LET hit == {j \in i..Len(s) : s[j] \in stop}
    IN  IF hit = {} THEN Len(s) + 1 ELSE Min(hit)

\* the first index >= i of s that holds no lexeme of class, else Len(s)+1:
\* where a run [class]* that starts at i ends
FirstNotIn(s, i, class) ==
    LET hit == {j \in i..Len(s) : s[j] \notin class}
    IN  IF hit = {} THEN Len(s) + 1 ELSE Min(hit)

\* the literal lit matches s at index i
MatchLit(s, i, lit) ==
    /\ i >= 1
    /\ i + Len(lit) - 1 <= Len(s)
    /\ SubSeq(s, i, i + Len(lit) - 1) = lit

At(s, i) == IF i >= 1 /\ i <= Len(s) THEN s[i] ELSE "<eof>"

NoMatch == [end |-> 0, rep |-> <<>>]

\* re.sub from index i on: M[j] is the match of the pattern that starts at
\* index j (end is the index after it, rep its replacement) or NoMatch; the
\* leftmost match is replaced and the scan goes on after it
RECURSIVE SubFrom(_, _, _)
SubFrom(s, M, i) ==
    LET starts == {j \in i..Len(s) : M[j].end > 0}
        j == Min(starts)
    IN  IF starts = {} THEN SubSeq(s, i, Len(s))
        ELSE SubSeq(s, i, j - 1) \o M[j].rep \o SubFrom(s, M, M[j].end)

ReSub(s, M) == SubFrom(s, M, 1)

----------------------------------------------------------------------------
(* process_markdown_document_links *)

\* MarkdownDocMatch with the base URL put after documents/ instead of before
\* it: the rewritten target still starts with documents/
MarkdownDocMatchAppended(s, i) ==
    LET j == FirstIn(s, i + 1, {RBRACKET})
    IN  IF /\ s[i] = LBRACKET
           /\ j >= i + 2
           /\ MatchLit(s, j, <<RBRACKET, LPAREN, DOCUMENTS>>)
        THEN [end |-> j + 3, rep |-> SubSeq(s, i, j + 2) \o DocBase]
        ELSE NoMatch

\* markdown_doc_pattern = (\[([^\]]+)\]\()documents/   at index i
MarkdownDocMatch(s, i) ==
    LET j == FirstIn(s, i + 1, {RBRACKET})
    IN  IF /\ s[i] = LBRACKET
           /\ j >= i + 2
           /\ MatchLit(s, j, <<RBRACKET, LPAREN, DOCUMENTS>>)
        THEN [end |-> j + 3, rep |-> SubSeq(s, i, j + 1) \o DocBase]
        ELSE NoMatch

process_markdown_document_links(s) ==
    ReSub(s, [i \in 1..Len(s) |-> MarkdownDocMatch(s, i)])

----------------------------------------------------------------------------
(* process_document_links and process_image_paths *)

\* doc_pattern = ((?:href|src)=")documents/   at index i
DocLinkMatch(s, i) ==
    IF s[i] \in {"href=", "src="} /\ MatchLit(s, i + 1, <<QUOTE, DOCUMENTS>>)
    THEN [end |-> i + 3, rep |-> <<s[i], QUOTE>> \o DocBase]
    ELSE NoMatch

process_document_links(s) ==
    ReSub(s, [i \in 1..Len(s) |-> DocLinkMatch(s, i)])

\* ImagePathAttrs without the 2x data source
ImagePathAttrsWithout2x == {"src=", "href="}

\* the attributes img_path_pattern names
ImagePathAttrs == {"src=", "href=", "data-src-2x="}

\* ImagePathMatch taking the target of a markdown image or link as well
ImagePathMatchMarkdown(s, i) ==
    IF s[i] \in ImagePathAttrs /\ MatchLit(s, i + 1, <<QUOTE, IMAGES>>)
    THEN [end |-> i + 3, rep |-> <<s[i], QUOTE>> \o AssetBase]
    ELSE IF s[i] = LPAREN /\ MatchLit(s, i + 1, <<IMAGES>>)
    THEN [end |-> i + 2, rep |-> <<LPAREN>> \o AssetBase]
    ELSE NoMatch

\* img_path_pattern = ((?:src|href|data-src-2x)=")images/   at index i
ImagePathMatch(s, i) ==
    IF s[i] \in ImagePathAttrs /\ MatchLit(s, i + 1, <<QUOTE, IMAGES>>)
    THEN [end |-> i + 3, rep |-> <<s[i], QUOTE>> \o AssetBase]
    ELSE NoMatch

process_image_paths(s) ==
    ReSub(s, [i \in 1..Len(s) |-> ImagePathMatch(s, i)])

----------------------------------------------------------------------------
(* process_youtube_videos *)

YoutubeOpen == <<"<div", SPACE, "class=", QUOTE, "js-lazyYT", QUOTE, SPACE,
                 "data-youtube-id=", QUOTE>>

YoutubeClose == <<"Loading...", "</div", GT>>

\* replace_youtube: the thumbnail image linking to the video
YoutubeLink(video_id) ==
    <<LBRACKET, "!", LBRACKET, "YouTube", SPACE, "Video", SPACE, "Thumbnail",
      RBRACKET, LPAREN, "https://img.youtube.com/vi/">> \o video_id \o
    <<"/", "0.jpg", RPAREN, RBRACKET, LPAREN,
      "https://www.youtube.com/", "watch?v=">> \o video_id \o <<RPAREN>>

\* youtube_pattern =
\*   <div class="js-lazyYT" data-youtube-id="([^"]+)"[^>]*>Loading\.\.\.</div>
YoutubeMatch(s, i) ==
    LET v == i + Len(YoutubeOpen)
        q == FirstIn(s, v, {QUOTE})
        g == FirstIn(s, q + 1, {GT})
    IN  IF /\ MatchLit(s, i, YoutubeOpen)
           /\ q > v
           /\ q <= Len(s)
           /\ g <= Len(s)
           /\ MatchLit(s, g + 1, YoutubeClose)
        THEN [end |-> g + 1 + Len(YoutubeClose),
              rep |-> YoutubeLink(SubSeq(s, v, q - 1))]
        ELSE NoMatch

process_youtube_videos(s) ==
    ReSub(s, [i \in 1..Len(s) |-> YoutubeMatch(s, i)])

----------------------------------------------------------------------------
(* process_images and process_data_src_images *)

NoAttr == [found |-> FALSE, value |-> <<>>]

\* re.search(r'name="([^"]*)"', attrs): the leftmost match
SearchAttr(attrs, name) ==
    LET hit == {k \in 1..Len(attrs) :
                    /\ attrs[k] = name
                    /\ At(attrs, k + 1) = QUOTE
                    /\ FirstIn(attrs, k + 2, {QUOTE}) <= Len(attrs)}
        k == Min(hit)
    IN  IF hit = {} THEN NoAttr
        ELSE [found |-> TRUE,
              value |-> SubSeq(attrs, k + 2, FirstIn(attrs, k + 2, {QUOTE}) - 1)]

\* re.search(r'name="(\d+)"', attrs): the leftmost match
SearchDigitsAttr(attrs, name) ==
    LET hit == {k \in 1..Len(attrs) :
                    /\ attrs[k] = name
                    /\ At(attrs, k + 1) = QUOTE
                    /\ FirstNotIn(attrs, k + 2, DigitWords) > k + 2
                    /\ At(attrs, FirstNotIn(attrs, k + 2, DigitWords)) = QUOTE}
        k == Min(hit)
    IN  IF hit = {} THEN NoAttr
        ELSE [found |-> TRUE,
              value |-> SubSeq(attrs, k + 2,
                               FirstNotIn(attrs, k + 2, DigitWords) - 1)]

AttrText(name, value) == <<name, QUOTE>> \o value \o <<QUOTE>>

\* RebuildImg that sets src and keeps every attribute the tag had
RebuildImgKeepingAttrs(all_attrs, src) ==
    <<"<img", SPACE>> \o AttrText("src=", src) \o <<SPACE>> \o all_attrs
    \o <<"/", GT>>

\* " ".join(new_attrs) of replace_img, inside <img .../>
RebuildImg(all_attrs, src) ==
    LET class_match == SearchAttr(all_attrs, "class=")
        width_match == SearchDigitsAttr(all_attrs, "width=")
        height_match == SearchDigitsAttr(all_attrs, "height=")
        alt_match == SearchAttr(all_attrs, "alt=")
    IN  <<"<img", SPACE>>
        \o (IF class_match.found
            THEN AttrText("class=", class_match.value) \o <<SPACE>> ELSE <<>>)
        \o AttrText("src=", src)
        \o (IF width_match.found
            THEN <<SPACE>> \o AttrText("width=", width_match.value) ELSE <<>>)
        \o (IF height_match.found
            THEN <<SPACE>> \o AttrText("height=", height_match.value) ELSE <<>>)
        \o <<SPACE>>
        \o (IF alt_match.found
            THEN AttrText("alt=", alt_match.value) ELSE AttrText("alt=", <<>>))
        \o <<"/", GT>>

\* img_pattern = <img\s+([^>]*?)data-src-retina="([^"]+)"([^>]*?)>   at index i
RetinaMatch(s, i) ==
    LET w == FirstNotIn(s, i + 1, Whitespace)
        stop == FirstIn(s, w, {GT})
        hit == {k \in w..(stop - 1) :
                    /\ MatchLit(s, k, <<"data-src-retina=", QUOTE>>)
                    /\ FirstIn(s, k + 2, {QUOTE}) > k + 2
                    /\ FirstIn(s, k + 2, {QUOTE}) <= Len(s)
                    /\ FirstIn(s, FirstIn(s, k + 2, {QUOTE}) + 1, {GT}) <= Len(s)}
        k == Min(hit)
        q == FirstIn(s, k + 2, {QUOTE})
        e == FirstIn(s, q + 1, {GT})
    IN  IF s[i] = "<img" /\ w > i + 1 /\ hit # {}
        THEN [end |-> e + 1,
              rep |-> RebuildImg(SubSeq(s, w, k - 1) \o SubSeq(s, q + 1, e - 1),
                                 SubSeq(s, k + 2, q - 1))]
        ELSE NoMatch

process_images(s) ==
    ReSub(s, [i \in 1..Len(s) |-> RetinaMatch(s, i)])

\* (?![^>]*data-src-retina) at index i: no retina attribute before the next >
NoRetinaAhead(s, i) ==
    \A r \in i..(FirstIn(s, i, {GT}) - 1) : s[r] # "data-src-retina="

\* img_pattern =
\*   <img\s+([^>]*?)data-src="([^"]+)"(?![^>]*data-src-retina)([^>]*?)>
DataSrcMatch(s, i) ==
    LET w == FirstNotIn(s, i + 1, Whitespace)
        stop == FirstIn(s, w, {GT})
        hit == {k \in w..(stop - 1) :
                    /\ MatchLit(s, k, <<"data-", "src=", QUOTE>>)
                    /\ FirstIn(s, k + 3, {QUOTE}) > k + 3
                    /\ FirstIn(s, k + 3, {QUOTE}) <= Len(s)
                    /\ NoRetinaAhead(s, FirstIn(s, k + 3, {QUOTE}) + 1)
                    /\ FirstIn(s, FirstIn(s, k + 3, {QUOTE}) + 1, {GT}) <= Len(s)}
        k == Min(hit)
        q == FirstIn(s, k + 3, {QUOTE})
        e == FirstIn(s, q + 1, {GT})
    IN  IF s[i] = "<img" /\ w > i + 1 /\ hit # {}
        THEN [end |-> e + 1,
              rep |-> RebuildImg(SubSeq(s, w, k - 1) \o SubSeq(s, q + 1, e - 1),
                                 SubSeq(s, k + 3, q - 1))]
        ELSE NoMatch

process_data_src_images(s) ==
    ReSub(s, [i \in 1..Len(s) |-> DataSrcMatch(s, i)])

----------------------------------------------------------------------------
(* extract_used_image_filenames *)

\* the lexemes that end the captured path: [^")\s]+
PathEnd == {QUOTE, RPAREN} \cup Whitespace

RECURSIVE Concat(_)
Concat(s) == IF s = <<>> THEN "" ELSE Head(s) \o Concat(Tail(s))

\* match.split('/')[-1] if '/' in match else match
LastSegment(path) ==
    LET dirs == {k \in 1..Len(path) : path[k] \in DirWords}
    IN  IF dirs = {} THEN Concat(path)
        ELSE Concat(SubSeq(path, Max(dirs) + 1, Len(path)))

\* pattern = https://raw\.githubusercontent\.com/[^")]*images/([^")\s]+)
\* at index i: [^")]* is greedy, so the last images/ that a path follows
RawUrlMatch(s, i) ==
    LET m == FirstIn(s, i + 1, {QUOTE, RPAREN})
        hit == {p \in (i + 1)..(m - 1) :
                    s[p] = IMAGES /\ At(s, p + 1) \notin PathEnd \cup {"<eof>"}}
        p == Max(hit)
        e == FirstIn(s, p + 1, PathEnd)
    IN  IF s[i] = RAW_HOST /\ hit # {}
        THEN [end |-> e, rep |-> SubSeq(s, p + 1, e - 1)]
        ELSE NoMatch

\* re.findall(pattern, content), then the filename of every match
RECURSIVE FindFrom(_, _)
FindFrom(s, i) ==
    LET starts == {j \in i..Len(s) : RawUrlMatch(s, j).end > 0}
        m == RawUrlMatch(s, Min(starts))
    IN  IF starts = {} THEN {}
        ELSE {LastSegment(m.rep)} \cup FindFrom(s, m.end)

extract_used_image_filenames(s) == FindFrom(s, 1)

----------------------------------------------------------------------------
(* TableParser.  An attribute is <<name, value>>; a name keeps its = sign. *)

\* TableParser.__init__
NewTableParser ==
    [in_table |-> FALSE, in_thead |-> FALSE, in_tbody |-> FALSE,
     in_tr |-> FALSE, in_td |-> FALSE, in_th |-> FALSE,
     current_row |-> <<>>, current_cell |-> <<>>,
     headers |-> <<>>, rows |-> <<>>, markdown_table |-> <<>>]

\* the loop over attrs of the img branch: the state is [src, alt]
RECURSIVE ImgAttrs(_, _, _)
ImgAttrs(attrs, k, st) ==
    IF k > Len(attrs) THEN st
    ELSE LET attr_name == attrs[k][1]
             attr_value == attrs[k][2]
         IN  ImgAttrs(attrs, k + 1,
                 IF attr_name = "src=" THEN [st EXCEPT !.src = attr_value]
                 ELSE IF attr_name = "data-src-retina="
                      THEN [st EXCEPT !.src = attr_value]
                 ELSE IF attr_name = "data-src=" /\ st.src = <<>>
                      THEN [st EXCEPT !.src = attr_value]
                 ELSE IF attr_name = "alt=" THEN [st EXCEPT !.alt = attr_value]
                 ELSE st)

\* f"![{alt}]({src})"
MarkdownImage(alt, src) ==
    <<"!", LBRACKET>> \o alt \o <<RBRACKET, LPAREN>> \o src \o <<RPAREN>>

handle_starttag(p, tag, attrs) ==
    IF tag = "table"
    THEN [p EXCEPT !.in_table = TRUE, !.headers = <<>>, !.rows = <<>>]
    ELSE IF tag = "thead" THEN [p EXCEPT !.in_thead = TRUE]
    ELSE IF tag = "tbody" THEN [p EXCEPT !.in_tbody = TRUE]
    ELSE IF tag = "tr" THEN [p EXCEPT !.in_tr = TRUE, !.current_row = <<>>]
    ELSE IF tag = "th" THEN [p EXCEPT !.in_th = TRUE, !.current_cell = <<>>]
    ELSE IF tag = "td" THEN [p EXCEPT !.in_td = TRUE, !.current_cell = <<>>]
    ELSE IF tag = "br"
    THEN IF p.in_td \/ p.in_th
         THEN [p EXCEPT !.current_cell = @ \o <<BR>>]
         ELSE p
    ELSE IF tag = "img"
    THEN LET st == ImgAttrs(attrs, 1, [src |-> <<>>, alt |-> <<>>])
         IN  IF st.src # <<>> /\ (p.in_td \/ p.in_th)
             THEN [p EXCEPT !.current_cell = @ \o MarkdownImage(st.alt, st.src)]
             ELSE p
    ELSE p

\* str.strip()
Strip(s) ==
    LET keep == {k \in 1..Len(s) : s[k] \notin Whitespace}
    IN  IF keep = {} THEN <<>> ELSE SubSeq(s, Min(keep), Max(keep))

\* [ \t]+ at index i, replaced by one space
BlankRunMatch(s, i) ==
    IF s[i] \in {SPACE, TAB}
    THEN [end |-> FirstNotIn(s, i, {SPACE, TAB}), rep |-> <<SPACE>>]
    ELSE NoMatch

\* <br>\s* at index i, replaced by <br>
BrRunMatch(s, i) ==
    IF s[i] = BR
    THEN [end |-> FirstNotIn(s, i + 1, Whitespace), rep |-> <<BR>>]
    ELSE NoMatch

\* the clean-up of a cell in handle_endtag
CleanCell(current_cell) ==
    LET stripped == Strip(current_cell)
        spaced == ReSub(stripped,
                        [i \in 1..Len(stripped) |-> BlankRunMatch(stripped, i)])
    IN  ReSub(spaced, [i \in 1..Len(spaced) |-> BrRunMatch(spaced, i)])

RECURSIVE JoinWith(_, _)
\* sep.join(parts)
JoinWith(parts, sep) ==
    IF parts = <<>> THEN <<>>
    ELSE IF Len(parts) = 1 THEN parts[1]
    ELSE parts[1] \o sep \o JoinWith(Tail(parts), sep)

\* "| " + " | ".join(cells) + " |"
TableLine(cells) ==
    <<"|", SPACE>> \o JoinWith(cells, <<SPACE, "|", SPACE>>) \o <<SPACE, "|">>

\* the padding loop and the truncation of one data row
FitRow(row, n) ==
    [k \in 1..n |-> IF k <= Len(row) THEN row[k] ELSE <<>>]

_generate_markdown_table(p) ==
    IF p.headers = <<>> /\ p.rows = <<>> THEN p
    ELSE LET q == IF p.headers = <<>>
                  THEN [p EXCEPT !.headers = Head(p.rows), !.rows = Tail(p.rows)]
                  ELSE p
             n == Len(q.headers)
             lines == <<TableLine(q.headers),
                        TableLine([k \in 1..n |-> <<"---">>])>>
                      \o [r \in 1..Len(q.rows) |-> TableLine(FitRow(q.rows[r], n))]
         IN  IF q.headers = <<>> THEN q
             ELSE [q EXCEPT !.rows = [r \in 1..Len(q.rows) |->
                                         IF Len(q.rows[r]) < n
                                         THEN FitRow(q.rows[r], n)
                                         ELSE q.rows[r]],
                            !.markdown_table = JoinWith(lines, <<NEWLINE>>)]

handle_endtag(p, tag) ==
    IF tag = "table" THEN _generate_markdown_table([p EXCEPT !.in_table = FALSE])
    ELSE IF tag = "thead" THEN [p EXCEPT !.in_thead = FALSE]
    ELSE IF tag = "tbody" THEN [p EXCEPT !.in_tbody = FALSE]
    ELSE IF tag = "tr"
    THEN IF p.in_thead \/ (~p.in_tbody /\ p.headers = <<>>)
         THEN [p EXCEPT !.in_tr = FALSE, !.headers = p.current_row]
         ELSE [p EXCEPT !.in_tr = FALSE, !.rows = Append(@, p.current_row)]
    ELSE IF tag \in {"td", "th"}
    THEN [p EXCEPT !.current_row = Append(@, CleanCell(p.current_cell)),
                   !.in_th = IF tag = "th" THEN FALSE ELSE @,
                   !.in_td = IF tag = "th" THEN @ ELSE FALSE]
    ELSE p

handle_data(p, data) ==
    IF (p.in_td \/ p.in_th) /\ Strip(data) # <<>>
    THEN [p EXCEPT !.current_cell = @ \o Strip(data)]
    ELSE p

----------------------------------------------------------------------------
(* HTMLParser.feed: the markup is read construct by construct, and each    *)
(* construct is handed to the handler of its kind.                         *)

StartTagOf ==
    ("<table" :> "table") @@ ("<thead" :> "thead") @@ ("<tbody" :> "tbody") @@
    ("<tr" :> "tr") @@ ("<td" :> "td") @@ ("<th" :> "th") @@ ("<br" :> "br") @@
    ("<img" :> "img") @@ ("<div" :> "div") @@ ("<a" :> "a")

EndTagOf ==
    ("</table" :> "table") @@ ("</thead" :> "thead") @@ ("</tbody" :> "tbody") @@
    ("</tr" :> "tr") @@ ("</td" :> "td") @@ ("</th" :> "th") @@
    ("</div" :> "div") @@ ("</a" :> "a")

TagOpeners == DOMAIN StartTagOf \cup DOMAIN EndTagOf

\* the attribute names of the lexicon
AttrWords == {"src=", "href=", "alt=", "class=", "width=", "height=",
              "data-src-retina=", "data-src-2x=", "data-youtube-id="}

\* the rest of a tag from index i: its attributes, up to its >
RECURSIVE LexAttrs(_, _, _)
LexAttrs(s, i, acc) ==
    IF i > Len(s) THEN [ok |-> FALSE, next |-> i, attrs |-> acc, selfclose |-> FALSE]
    ELSE IF s[i] = GT
    THEN [ok |-> TRUE, next |-> i + 1, attrs |-> acc, selfclose |-> s[i - 1] = "/"]
    ELSE IF /\ MatchLit(s, i, <<"data-", "src=", QUOTE>>)
            /\ FirstIn(s, i + 3, {QUOTE}) <= Len(s)
    THEN LexAttrs(s, FirstIn(s, i + 3, {QUOTE}) + 1,
                  Append(acc, <<"data-src=",
                                SubSeq(s, i + 3, FirstIn(s, i + 3, {QUOTE}) - 1)>>))
    ELSE IF /\ s[i] \in AttrWords
            /\ At(s, i + 1) = QUOTE
            /\ FirstIn(s, i + 2, {QUOTE}) <= Len(s)
    THEN LexAttrs(s, FirstIn(s, i + 2, {QUOTE}) + 1,
                  Append(acc, <<s[i],
                                SubSeq(s, i + 2, FirstIn(s, i + 2, {QUOTE}) - 1)>>))
    ELSE LexAttrs(s, i + 1, acc)

\* the construct of s that starts at index i: a start tag, an end tag or the
\* text up to the next tag ("wait": a tag that is not complete yet)
LexAt(s, i) ==
    IF s[i] \in TagOpeners
    THEN LET t == LexAttrs(s, i + 1, <<>>)
         IN  [kind |-> IF ~t.ok THEN "wait"
                       ELSE IF s[i] \in DOMAIN StartTagOf THEN "start" ELSE "end",
              tag |-> IF s[i] \in DOMAIN StartTagOf
                      THEN StartTagOf[s[i]] ELSE EndTagOf[s[i]],
              attrs |-> t.attrs, selfclose |-> t.selfclose,
              data |-> <<>>, next |-> t.next]
    ELSE [kind |-> "data", tag |-> "", attrs |-> <<>>, selfclose |-> FALSE,
          data |-> SubSeq(s, i, FirstIn(s, i, TagOpeners) - 1),
          next |-> FirstIn(s, i, TagOpeners)]

\* the handler call(s) HTMLParser makes for construct e
\* (handle_startendtag calls handle_starttag and handle_endtag)
Dispatch(p, e) ==
    IF e.kind = "start"
    THEN IF e.selfclose
         THEN handle_endtag(handle_starttag(p, e.tag, e.attrs), e.tag)
         ELSE handle_starttag(p, e.tag, e.attrs)
    ELSE IF e.kind = "end" THEN handle_endtag(p, e.tag)
    ELSE handle_data(p, e.data)

RECURSIVE FeedFrom(_, _, _)
FeedFrom(p, s, i) ==
    IF i > Len(s) THEN p
    ELSE LET e == LexAt(s, i)
             q == Dispatch(p, e)
         IN  IF e.kind = "wait" THEN p
             ELSE IF q = p THEN FeedFrom(p, s, e.next)
             ELSE FeedFrom(q, s, e.next)

\* parser.feed(table_html) on a new TableParser
Feed(table_html) == FeedFrom(NewTableParser, table_html, 1)

----------------------------------------------------------------------------
(* convert_html_tables_to_markdown *)

\* replace_table
ReplaceTable(p, table_html) ==
    IF p.markdown_table # <<>>
    THEN <<NEWLINE>> \o p.markdown_table \o <<NEWLINE>>
    ELSE table_html

\* table_pattern = <table[^>]*>.*?</table>   (DOTALL) at index i
TableMatch(s, i) ==
    LET g == FirstIn(s, i + 1, {GT})
        hit == {t \in (g + 1)..Len(s) : MatchLit(s, t, <<"</table", GT>>)}
        t == Min(hit)
    IN  IF s[i] = "<table" /\ g <= Len(s) /\ hit # {}
        THEN [end |-> t + 2,
              rep |-> ReplaceTable(Feed(SubSeq(s, i, t + 1)), SubSeq(s, i, t + 1))]
        ELSE NoMatch

convert_html_tables_to_markdown(s) ==
    ReSub(s, [i \in 1..Len(s) |-> TableMatch(s, i)])

----------------------------------------------------------------------------
(* The passes of combine_markdown_files on one fragment's content *)

\* content.replace(' ', ' ')
ReplaceNbsp(s) == [k \in 1..Len(s) |-> IF s[k] = NBSP THEN SPACE ELSE s[k]]

Transform(s) ==
    LET c1 == process_youtube_videos(s)
        c2 == process_images(c1)
        c3 == process_data_src_images(c2)
        c4 == process_document_links(c3)
        c5 == process_markdown_document_links(c4)
        c6 == process_image_paths(c5)
        c7 == process_markdown_document_links(c6)
        c8 == convert_html_tables_to_markdown(c7)
    IN  ReplaceNbsp(c8)

----------------------------------------------------------------------------
(* Values of the variables a specification does not use *)

MainIdle ==
    /\ md_files = <<>>
    /\ idx = 0
    /\ outfile = <<>>
    /\ auto_delete = FALSE
    /\ response = ""
    /\ all_files = {}
    /\ folder = {}
    /\ locked = {}
    /\ unused_files = {}
    /\ pending = {}
    /\ unused_files_list = <<>>
    /\ ret = "none"

TableIdle == parser = NewTableParser /\ rawdata = <<>>

TextIdle == given = <<>> /\ content = <<>> /\ prev = <<>>

RECURSIVE Flatten(_)
\* "".join(parts)
Flatten(parts) ==
    IF parts = <<>> THEN <<>> ELSE Head(parts) \o Flatten(Tail(parts))

\* the sequences of at most n elements of S
SeqsUpTo(S, n) == UNION {[1..k -> S] : k \in 0..n}

----------------------------------------------------------------------------
(* SpecLinks: process_markdown_document_links applied twice in a row, as   *)
(* combine_markdown_files applies it, on every text of at most MaxLinkLen  *)
(* lexemes over the lexemes its pattern is made of.                        *)

MaxLinkLen == 6

LinkAlphabet == {LBRACKET, RBRACKET, LPAREN, DOCUMENTS, "x"}

InitLinks ==
    /\ pc = "links"
    /\ given \in SeqsUpTo(LinkAlphabet, MaxLinkLen)
    /\ content = given
    /\ prev = given
    /\ used_images = {}
    /\ MainIdle
    /\ TableIdle

ApplyMarkdownDocLinks ==
    /\ pc \in {"links", "links1"}
    /\ pc' = IF pc = "links" THEN "links1" ELSE "links2"
    /\ prev' = content
    /\ content' = process_markdown_document_links(content)
    /\ UNCHANGED <<given, used_images, mainVars, tableVars>>

NextLinks == ApplyMarkdownDocLinks

SpecLinks == InitLinks /\ [][NextLinks]_vars

\* C10: the markdown document-link pass is idempotent: applied to its own
\* result it changes nothing, whatever the brackets of the text
LinksIdempotent == pc = "links2" => content = prev

\* a text with nested brackets before ](documents/ has been rewritten by the
\* first application and gone through the second
LinksIdempotentWitness ==
    /\ pc = "links2"
    /\ MatchLit(given, 1, <<LBRACKET, LBRACKET>>)
    /\ prev # given
    /\ \E i \in 1..Len(prev) : MatchLit(prev, i, <<LPAREN>> \o DocBase)

----------------------------------------------------------------------------
(* SpecImages: process_images, then process_data_src_images, on one image  *)
(* tag with at most MaxAttrs attributes in every order.                    *)

MaxAttrs == 3

ImgAttrPool ==
    {<<"data-src-retina=", QUOTE, "r.png", QUOTE>>,
     <<"data-", "src=", QUOTE, "d.png", QUOTE>>,
     <<"src=", QUOTE, "s.png", QUOTE>>,
     <<"class=", QUOTE, "k", QUOTE>>,
     <<"alt=", QUOTE, "x", QUOTE>>,
     <<"width=", QUOTE, "10", QUOTE>>}

\* the lists of distinct attributes
AttrLists ==
    {a \in SeqsUpTo(ImgAttrPool, MaxAttrs) :
        \A i, j \in 1..Len(a) : i # j => a[i] # a[j]}

ImgTag(attrs, close) ==
    <<"<img">> \o Flatten([k \in 1..Len(attrs) |-> <<SPACE>> \o attrs[k]]) \o close

ImgTexts == {ImgTag(a, c) : a \in AttrLists, c \in {<<GT>>, <<"/", GT>>}}

InitImages ==
    /\ pc = "img"
    /\ given \in ImgTexts
    /\ content = given
    /\ prev = given
    /\ used_images = {}
    /\ MainIdle
    /\ TableIdle

ApplyRetina ==
    /\ pc = "img"
    /\ pc' = "img1"
    /\ prev' = content
    /\ content' = process_images(content)
    /\ UNCHANGED <<given, used_images, mainVars, tableVars>>

ApplyDataSrc ==
    /\ pc = "img1"
    /\ pc' = "img2"
    /\ prev' = content
    /\ content' = process_data_src_images(content)
    /\ UNCHANGED <<given, used_images, mainVars, tableVars>>

NextImages == ApplyRetina \/ ApplyDataSrc

SpecImages == InitImages /\ [][NextImages]_vars

\* the attributes of the tag that starts a text, as HTMLParser reads them
TagAttrs(text) == LexAttrs(text, 2, <<>>).attrs

HasAttr(text, name) == \E k \in 1..Len(TagAttrs(text)) : TagAttrs(text)[k][1] = name

\* the values given to attribute name
AttrValues(text, name) ==
    {TagAttrs(text)[k][2] : k \in {j \in 1..Len(TagAttrs(text)) :
                                       TagAttrs(text)[j][1] = name}}

HasBoth(text) == HasAttr(text, "data-src-retina=") /\ HasAttr(text, "data-src=")

\* C9: an image tag with both data-src-retina and data-src, in either order,
\* is rebuilt by the retina pass with the retina source as its src, and the
\* data-src pass leaves the result unchanged; no tag is rebuilt by both
ImagesExclusive ==
    pc = "img2" =>
        /\ HasBoth(given) =>
              /\ prev # given
              /\ AttrValues(prev, "src=") = AttrValues(given, "data-src-retina=")
              /\ ~HasAttr(prev, "data-src=")
              /\ content = prev
        /\ prev = given \/ content = prev

\* a tag with data-src before data-src-retina has gone through both passes
ImagesExclusiveWitness ==
    /\ pc = "img2"
    /\ HasBoth(given)
    /\ TagAttrs(given)[1][1] = "data-src="
    /\ content # given

----------------------------------------------------------------------------
(* SpecRefs: process_image_paths and extract_used_image_filenames on the   *)
(* texts made of at most MaxChunks chunks: attributes that name a file of  *)
(* images/, absolute URLs and the characters that end a URL.               *)

MaxChunks == 3

RefFiles == {"a.png", "b.png"}

\* attr="images/f"
AttrRef(attr, f) == <<attr, QUOTE, IMAGES, f, QUOTE>>

AttrRefChunks == {AttrRef(attr, f) : attr \in {"src=", "href=", "data-src-2x="},
                                    f \in RefFiles}

UrlChunks ==
    {AssetBase \o <<f>> : f \in RefFiles}
    \cup {AssetBase \o <<"sub/", "c.png">>,
          <<RAW_HOST, "other/repo/", IMAGES, "x.png">>,
          <<"https://example.com/", IMAGES, "y.png">>}

EndChunks == {<<SPACE>>, <<NEWLINE>>, <<QUOTE>>, <<RPAREN>>}

RefTexts ==
    {Flatten(c) : c \in SeqsUpTo(AttrRefChunks \cup UrlChunks \cup EndChunks,
                                 MaxChunks)}

\* the texts that hold nothing but attributes naming files of images/
AttrTexts ==
    {Flatten(c) : c \in SeqsUpTo(AttrRefChunks \cup {<<SPACE>>, <<NEWLINE>>},
                                 MaxChunks)}

InitRefs ==
    /\ pc = "refs"
    /\ given \in RefTexts
    /\ content = given
    /\ prev = given
    /\ used_images = {}
    /\ MainIdle
    /\ TableIdle

RewriteImagePaths ==
    /\ pc = "refs"
    /\ pc' = "rewritten"
    /\ prev' = content
    /\ content' = process_image_paths(content)
    /\ UNCHANGED <<given, used_images, mainVars, tableVars>>

ExtractUsedImages ==
    /\ pc \in {"refs", "rewritten"}
    /\ pc' = IF pc = "refs" THEN "scanned" ELSE "recovered"
    /\ used_images' = extract_used_image_filenames(content)
    /\ UNCHANGED <<textVars, mainVars, tableVars>>

NextRefs == RewriteImagePaths \/ ExtractUsedImages

SpecRefs == InitRefs /\ [][NextRefs]_vars

\* the final path segments of the occurrences in s of the fixed asset base URL
\* followed by a path, which ends at the next quote, parenthesis or whitespace
FixedBaseRefs(s) ==
    {LastSegment(SubSeq(s, i + 3, FirstIn(s, i + 3, PathEnd) - 1)) :
        i \in {j \in 1..Len(s) : /\ MatchLit(s, j, AssetBase)
                                 /\ FirstIn(s, j + 3, PathEnd) > j + 3}}

\* C4: every occurrence of the fixed asset base URL followed by a path
\* contributes the final segment of its own path to the set the extractor
\* returns, two occurrences separated only by whitespace included
RefsComplete ==
    pc \in {"scanned", "recovered"} => FixedBaseRefs(content) \subseteq used_images

\* the files a text names
FilesNamed(s) == {f \in RefFiles : \E k \in 1..Len(s) : s[k] = f}

----------------------------------------------------------------------------
(* SpecTable: convert_html_tables_to_markdown on one <table>...</table>    *)
(* fragment; parser.feed goes construct by construct, one handler call a   *)
(* step, and replace_table ends the run.  The fragments:                   *)
(*   structure: at most MaxItems items, each a closed row, a row whose     *)
(*     <tr> is never closed, or the start or the end of a head or a body   *)
(*     section; row k holds the one cell "c<k>";                           *)
(*   shape: a header row of 1..MaxCols <th> cells and at most MaxRows data *)
(*     rows of 0..MaxCols+1 cells, all holding one of CellTexts;           *)
(*   image: one row, one cell, one image tag with at most MaxAttrs         *)
(*     attributes in every order.                                          *)

MaxItems == 4

MaxRows == 2

MaxCols == 2

TableOpen == <<"<table", GT>>

TableClose == <<"</table", GT>>

Cell(tag, text) == <<"<" \o tag, GT>> \o text \o <<"</" \o tag, GT>>

ItemKinds == {"thead", "/thead", "tbody", "/tbody", "row", "open row"}

\* the markup of item k of a structure table
ItemText(kind, k) ==
    IF kind = "row"
    THEN <<"<tr", GT>> \o Cell("td", <<"c" \o ToString(k)>>) \o <<"</tr", GT>>
    ELSE IF kind = "open row"
    THEN <<"<tr", GT>> \o Cell("td", <<"c" \o ToString(k)>>)
    ELSE <<"<" \o kind, GT>>

StructureTables ==
    {TableOpen \o Flatten([k \in 1..Len(items) |-> ItemText(items[k], k)])
              \o TableClose : items \in SeqsUpTo(ItemKinds, MaxItems)}

\* the texts of the data cells
CellTexts ==
    {<<"a">>,
     <<"a", NEWLINE, "b">>,
     <<SPACE, "a", SPACE, TAB, "b", SPACE>>,
     <<"a", "<br", GT, SPACE, "b">>}

HeaderRow(h) ==
    <<"<tr", GT>> \o Flatten([k \in 1..h |-> Cell("th", <<"h" \o ToString(k)>>)])
                  \o <<"</tr", GT>>

DataRow(n, text) ==
    <<"<tr", GT>> \o Flatten([k \in 1..n |-> Cell("td", text)]) \o <<"</tr", GT>>

ShapeTables ==
    {TableOpen \o HeaderRow(h)
               \o Flatten([r \in 1..Len(widths) |-> DataRow(widths[r], text)])
               \o TableClose :
        h \in 1..MaxCols,
        widths \in SeqsUpTo(0..(MaxCols + 1), MaxRows),
        text \in CellTexts}

\* the attributes of an image tag in a cell
CellImgAttrPool ==
    {a \in ImgAttrPool : a[1] \in {"data-src-retina=", "data-", "src=", "alt="}}

ImageTables ==
    {TableOpen \o <<"<tr", GT>> \o Cell("td", ImgTag(a, <<GT>>)) \o <<"</tr", GT>>
               \o TableClose :
        a \in {l \in AttrLists : \A k \in 1..Len(l) : l[k] \in CellImgAttrPool}}

InitTable ==
    /\ pc = "feed"
    /\ given \in StructureTables \cup ShapeTables \cup ImageTables
    /\ rawdata = given
    /\ parser = NewTableParser
    /\ content = given
    /\ prev = given
    /\ used_images = {}
    /\ MainIdle

\* the rest of rawdata after construct e
Consumed(e) == SubSeq(rawdata, e.next, Len(rawdata))

HandleStarttag ==
    /\ pc = "feed"
    /\ rawdata # <<>>
    /\ LET e == LexAt(rawdata, 1)
       IN  /\ e.kind = "start"
           /\ parser' = Dispatch(parser, e)
           /\ rawdata' = Consumed(e)
    /\ UNCHANGED <<pc, textVars, used_images, mainVars>>

HandleEndtag ==
    /\ pc = "feed"
    /\ rawdata # <<>>
    /\ LET e == LexAt(rawdata, 1)
       IN  /\ e.kind = "end"
           /\ parser' = Dispatch(parser, e)
           /\ rawdata' = Consumed(e)
    /\ UNCHANGED <<pc, textVars, used_images, mainVars>>

HandleData ==
    /\ pc = "feed"
    /\ rawdata # <<>>
    /\ LET e == LexAt(rawdata, 1)
       IN  /\ e.kind = "data"
           /\ parser' = Dispatch(parser, e)
           /\ rawdata' = Consumed(e)
    /\ UNCHANGED <<pc, textVars, used_images, mainVars>>

\* feed has returned: replace_table gives the markdown table or the original
ReturnTable ==
    /\ pc = "feed"
    /\ IF rawdata = <<>> THEN TRUE ELSE LexAt(rawdata, 1).kind = "wait"
    /\ pc' = "done"
    /\ prev' = content
    /\ content' = ReplaceTable(parser, given)
    /\ UNCHANGED <<given, tableVars, used_images, mainVars>>

NextTable == HandleStarttag \/ HandleEndtag \/ HandleData \/ ReturnTable

SpecTable == InitTable /\ [][NextTable]_vars

\* some <tr> of s has no </tr> before the next <tr> or the end of s
HasUnclosedTr(s) ==
    \E i \in 1..Len(s) :
        /\ s[i] = "<tr"
        /\ \A j \in (i + 1)..(FirstIn(s, i + 1, {"<tr"}) - 1) : s[j] # "</tr"

\* C2: a table fragment in which some <tr> is never closed, also after rows
\* that are closed, is returned as it was given: no markdown table takes its
\* place and none of its rows and cells is dropped
TableFailSoft == (pc = "done" /\ HasUnclosedTr(given)) => content = given

\* how many times lexeme t occurs in s
Count(s, t) == Cardinality({k \in 1..Len(s) : s[k] = t})

\* the lines of a text: the runs between its newlines
Lines(s) ==
    LET nl == <<0>> \o [k \in 1..Count(s, NEWLINE) |->
                         CHOOSE i \in 1..Len(s) :
                             /\ s[i] = NEWLINE
                             /\ Count(SubSeq(s, 1, i), NEWLINE) = k]
               \o <<Len(s) + 1>>
    IN  [k \in 1..(Len(nl) - 1) |-> SubSeq(s, nl[k] + 1, nl[k + 1] - 1)]

\* C3: the markdown table of a header and N data rows of any widths and any
\* cell text has N+2 lines: the header line, a separator line of len(header)
\* --- cells, and a line of len(header) cells for every data row
TableShape ==
    (pc = "done" /\ given \in ShapeTables) =>
        LET n == Count(given, "<tr") - 1
            h == Count(given, "<th")
            lines == Lines(parser.markdown_table)
        IN  /\ content = <<NEWLINE>> \o parser.markdown_table \o <<NEWLINE>>
            /\ Len(lines) = n + 2
            /\ lines[2] = TableLine([k \in 1..h |-> <<"---">>])
            /\ \A r \in 1..Len(lines) : Count(lines[r], "|") = h + 1

\* the cell texts of a table's rows, in input order
RowWords(s) == SelectSeq(s, LAMBDA t : t \notin TagOpeners \cup {GT})

\* a table of rows of one cell each, all closed, with no head section
HeadlessTable(s) ==
    /\ s \in StructureTables
    /\ Count(s, "<thead") = 0
    /\ Count(s, "</thead") = 0
    /\ ~HasUnclosedTr(s)
    /\ Count(s, "<tr") > 0

\* C11: in a table with no <thead> section, whatever mix of rows inside and
\* outside <tbody> it has, the header of the rendered table is the first row
\* of the input and the data rows are the remaining rows in input order
HeaderIsFirstRow ==
    (pc = "done" /\ HeadlessTable(given)) =>
        LET words == RowWords(given)
        IN  /\ parser.headers = <<<<words[1]>>>>
            /\ parser.rows = [k \in 1..(Len(words) - 1) |-> <<<<words[k + 1]>>>>]

\* the image tag of a table, from its <img on
ImgOf(s) == SubSeq(s, Min({i \in 1..Len(s) : s[i] = "<img"}), Len(s))

\* the value of attribute name of the tag that starts text, <<>> without it
AttrValue(text, name) ==
    IF HasAttr(text, name) THEN CHOOSE v \in AttrValues(text, name) : TRUE
    ELSE <<>>

\* the data-src-retina value when present, otherwise the data-src value when
\* present, otherwise the src value
PreferredSrc(text) ==
    IF HasAttr(text, "data-src-retina=") THEN AttrValue(text, "data-src-retina=")
    ELSE IF HasAttr(text, "data-src=") THEN AttrValue(text, "data-src=")
    ELSE AttrValue(text, "src=")

\* C12: an image tag in a cell, its attributes in any order, is rendered as
\* a markdown image whose source is the data-src-retina value when present,
\* otherwise the data-src value when present, otherwise the src value, and
\* whose alt text is the alt value when present and empty otherwise
ImageSourcePreference ==
    (/\ pc = "done"
     /\ given \in ImageTables
     /\ PreferredSrc(ImgOf(given)) # <<>>) =>
        parser.headers =
            <<MarkdownImage(AttrValue(ImgOf(given), "alt="),
                            PreferredSrc(ImgOf(given)))>>

----------------------------------------------------------------------------
(* Spec: main.  combine_markdown_files writes README.md from the fragments *)
(* of md/, then cleanup_unused_images reconciles the images folder with    *)
(* the references of README.md.  The environment: at most MaxFiles         *)
(* fragments, each unreadable or holding one of FragmentTexts; any images  *)
(* folder over Files, any of its files refusing unlink(); either policy    *)
(* and any answer at the prompt.                                           *)

MaxFiles == 2

\* fragment names in sorted order
Names == <<"a.md", "b.md", "c.md", "d.md">>

\* file names in sorted order
Files == <<"a.png", "b.png", "c.png">>

FileSet == {Files[k] : k \in 1..Len(Files)}

MarkdownImageFragment ==
    <<"#", SPACE, "A", NEWLINE,
      "!", LBRACKET, "x", RBRACKET, LPAREN, IMAGES, "a.png", RPAREN>>

HtmlImageFragment == <<"<img", SPACE, "src=", QUOTE, IMAGES, "a.png", QUOTE, GT>>

VideoFragment ==
    <<"#", SPACE, "B", NEWLINE>> \o YoutubeOpen \o <<"abc123", QUOTE, GT>>
                                 \o YoutubeClose

TableFragment ==
    TableOpen \o <<"<tr", GT>>
              \o Cell("td", <<"<img", SPACE, "src=", QUOTE, IMAGES, "b.png",
                              QUOTE, GT>>)
              \o <<"</tr", GT>> \o TableClose

FragmentTexts ==
    {MarkdownImageFragment, HtmlImageFragment, VideoFragment, TableFragment}

\* a fragment whose open() or read() raises
Unreadable == [readable |-> FALSE, text |-> <<>>]

Fragments == {Unreadable} \cup {[readable |-> TRUE, text |-> t] : t \in FragmentTexts}

\* what the user may type at the prompt
Answers == {"yes", "y", " YES ", "Y", "no", ""}

\* .lower().strip() of an answer
LowerStrip(answer) ==
    IF answer = " YES " THEN "yes" ELSE IF answer = "Y" THEN "y" ELSE answer

Title == <<"#", SPACE, "Tumult", SPACE, "Hype", SPACE, "Documentation",
           NEWLINE, NEWLINE>>

Separator == <<NEWLINE, NEWLINE, "---", NEWLINE, NEWLINE>>

\* the exception's text
ErrorText == <<"Permission", SPACE, "denied">>

\* *Error reading file {md_file.name}: {e}*
ErrorMarker(name) ==
    <<"*Error", SPACE, "reading", SPACE, "file", SPACE, name, ":", SPACE>>
        \o ErrorText \o <<"*">>

\* sorted(files)
Sorted(files) == SelectSeq(Files, LAMBDA f : f \in files)

find_unused_files(used, all) == all \ used

Init ==
    /\ pc = "start"
    /\ md_files \in SeqsUpTo(Fragments, MaxFiles)
    /\ idx = 1
    /\ outfile = <<>>
    /\ auto_delete \in BOOLEAN
    /\ response = ""
    /\ used_images = {}
    /\ all_files = {}
    /\ folder \in SUBSET FileSet
    /\ locked \in SUBSET folder
    /\ unused_files = {}
    /\ pending = {}
    /\ unused_files_list = <<>>
    /\ ret = "none"
    /\ TextIdle
    /\ TableIdle

combineVars == <<md_files, auto_delete, folder, locked, response, used_images,
                 all_files, unused_files, pending, unused_files_list, ret,
                 tableVars>>

\* combine_markdown_files finds no fragment and returns
NoFiles ==
    /\ pc = "start"
    /\ md_files = <<>>
    /\ pc' = "combined"
    /\ UNCHANGED <<idx, outfile, textVars, combineVars>>

\* combine_markdown_files opens README.md and writes the title
WriteHeader ==
    /\ pc = "start"
    /\ md_files # <<>>
    /\ outfile' = Title
    /\ pc' = "files"
    /\ UNCHANGED <<idx, textVars, combineVars>>

\* one turn of the loop over md_files, the fragment read and transformed
WriteFile ==
    /\ pc = "files"
    /\ idx <= Len(md_files)
    /\ md_files[idx].readable
    /\ given' = md_files[idx].text
    /\ prev' = content
    /\ content' = Transform(md_files[idx].text)
    /\ outfile' = outfile \o content'
                          \o IF idx < Len(md_files) THEN Separator ELSE <<>>
    /\ idx' = idx + 1
    /\ UNCHANGED <<pc, combineVars>>

\* one turn of the loop over md_files, the read raising
WriteError ==
    /\ pc = "files"
    /\ idx <= Len(md_files)
    /\ ~md_files[idx].readable
    /\ outfile' = outfile \o ErrorMarker(Names[idx]) \o <<NEWLINE, NEWLINE>>
    /\ idx' = idx + 1
    /\ UNCHANGED <<pc, textVars, combineVars>>

\* the loop over md_files ends and combine_markdown_files returns
Combined ==
    /\ pc = "files"
    /\ idx > Len(md_files)
    /\ pc' = "combined"
    /\ UNCHANGED <<idx, outfile, textVars, combineVars>>

cleanupVars == <<md_files, idx, outfile, auto_delete, locked, textVars,
                 tableVars>>

\* cleanup_unused_images up to the test of unused_files
Analyze ==
    /\ pc = "combined"
    /\ used_images' = extract_used_image_filenames(outfile)
    /\ all_files' = folder
    /\ unused_files' = find_unused_files(used_images', all_files')
    /\ pc' = IF unused_files' # {} THEN "unused" ELSE "summary"
    /\ UNCHANGED <<folder, response, pending, unused_files_list, ret,
                   cleanupVars>>

\* the policy: auto_delete answers yes, otherwise the prompt is answered
Respond ==
    /\ pc = "unused"
    /\ \E answer \in Answers :
           response' = IF auto_delete THEN "yes" ELSE LowerStrip(answer)
    /\ pending' = IF response' \in {"yes", "y"} THEN unused_files ELSE {}
    /\ pc' = IF response' \in {"yes", "y"} THEN "delete" ELSE "report"
    /\ UNCHANGED <<folder, used_images, all_files, unused_files,
                   unused_files_list, ret, cleanupVars>>

\* DeleteFile leaving the loop when unlink() raises
DeleteFileOrStop ==
    /\ pc = "delete"
    /\ \E filename \in pending :
           /\ folder' = IF filename \in folder /\ filename \notin locked
                        THEN folder \ {filename}
                        ELSE folder
           /\ pending' = IF filename \in folder /\ filename \in locked
                         THEN {}
                         ELSE pending \ {filename}
    /\ pc' = IF pending' = {} THEN "summary" ELSE "delete"
    /\ UNCHANGED <<response, used_images, all_files, unused_files,
                   unused_files_list, ret, cleanupVars>>

\* one turn of `for filename in unused_files`: the file is unlinked, or
\* unlink() raises and is caught, or the file is not there
DeleteFile ==
    /\ pc = "delete"
    /\ \E filename \in pending :
           /\ folder' = IF filename \in folder /\ filename \notin locked
                        THEN folder \ {filename}
                        ELSE folder
           /\ pending' = pending \ {filename}
    /\ pc' = IF pending' = {} THEN "summary" ELSE "delete"
    /\ UNCHANGED <<response, used_images, all_files, unused_files,
                   unused_files_list, ret, cleanupVars>>

\* the deletion is cancelled and unused_files.txt written
WriteReport ==
    /\ pc = "report"
    /\ unused_files_list' = Sorted(unused_files)
    /\ pc' = "summary"
    /\ UNCHANGED <<folder, response, used_images, all_files, unused_files,
                   pending, ret, cleanupVars>>

\* Return testing what the folder holds when the function returns
ReturnRecomputed ==
    /\ pc = "summary"
    /\ ret' = (folder \ used_images = {})
    /\ pc' = "returned"
    /\ UNCHANGED <<folder, response, used_images, all_files, unused_files,
                   pending, unused_files_list, cleanupVars>>

\* return len(unused_files) == 0
Return ==
    /\ pc = "summary"
    /\ ret' = (unused_files = {})
    /\ pc' = "returned"
    /\ UNCHANGED <<folder, response, used_images, all_files, unused_files,
                   pending, unused_files_list, cleanupVars>>

Next ==
    \/ NoFiles
    \/ WriteHeader
    \/ WriteFile
    \/ WriteError
    \/ Combined
    \/ Analyze
    \/ Respond
    \/ DeleteFile
    \/ WriteReport
    \/ Return

Spec == Init /\ [][Next]_vars

\* sub occurs in s
Occurs(sub, s) == \E i \in 1..Len(s) : MatchLit(s, i, sub)

\* the files a text references as src="images/<file>"
AttrImages(text) ==
    {text[i + 3] : i \in {j \in 1..(Len(text) - 3) :
                            text[j] = "src=" /\ MatchLit(text, j + 1, <<QUOTE, IMAGES>>)}}

\* the files a text references as ![alt](images/<file>)
MarkdownImages(text) ==
    {text[i + 2] : i \in {j \in 2..(Len(text) - 3) :
                            /\ text[j - 1] = RBRACKET
                            /\ MatchLit(text, j, <<LPAREN, IMAGES>>)
                            /\ text[j + 3] = RPAREN}}

\* the texts of the fragments that could be read
ReadableTexts ==
    {md_files[k].text : k \in {j \in 1..Len(md_files) : md_files[j].readable}}

\* README.md is written
Assembled == md_files # <<>> /\ pc \notin {"start", "files"}

\* cleanup_unused_images has computed the unused files
Analyzed == pc \in {"unused", "delete", "report", "summary", "returned"}

Piece(k, tail) ==
    IF md_files[k].readable THEN Transform(md_files[k].text)
    ELSE ErrorMarker(Names[k]) \o tail

\* C6: the assembled document is the title line and a blank line, then
\* the pieces of the fragments in order (an error marker ending with or
\* without its blank line), the separator between every two consecutive
\* pieces and nothing after the last piece
AssemblyShape ==
    (pc = "combined" /\ md_files # <<>>) =>
        \E tail \in {<<>>, <<NEWLINE, NEWLINE>>} :
            outfile = Title \o JoinWith([k \in 1..Len(md_files) |-> Piece(k, tail)],
                                        Separator)

\* C7: the unused set is the inventory minus the references, and
\* cleanup_unused_images returns true exactly when that set was empty when
\* computed: false after auto-delete has removed every unused file, true
\* when the inventory equals the references
ReconcileResult ==
    /\ Analyzed => unused_files = all_files \ used_images
    /\ pc = "unused" => all_files = folder
    /\ pc = "returned" =>
           /\ ret = (all_files \ used_images = {})
           /\ all_files = used_images => ret = TRUE
           /\ (unused_files # {} /\ folder \cap unused_files = {}) => ret = FALSE

\* auto-delete has removed every unused file and false is returned
ReconcileResultWitness ==
    /\ pc = "returned"
    /\ auto_delete
    /\ unused_files # {}
    /\ folder \cap unused_files = {}
    /\ ret = FALSE

\* C8: under the delete policy the folder ends as the inventory minus the
\* unused files whose unlink() did not raise, whatever files raise, and
\* under the report policy as the inventory; no referenced file is removed
FolderEffect ==
    /\ Analyzed => (all_files \cap used_images) \subseteq folder
    /\ pc \in {"summary", "returned"} =>
           IF response \in {"yes", "y"}
           THEN folder = all_files \ (unused_files \ locked)
           ELSE folder = all_files

\* the prompt was confirmed, one unused file could not be deleted and
\* another was deleted
FolderEffectWitness ==
    /\ pc = "returned"
    /\ ~auto_delete
    /\ response = "y"
    /\ unused_files \cap locked # {}
    /\ unused_files \ locked # {}
    /\ folder = all_files \ (unused_files \ locked)

====
